---------------------------- MODULE Spec2Model ----------------------------
(***************************************************************************)
(* The TLS-terminating HTTP responder of src/src/main.rs: the acceptor     *)
(* thread, one connection unit (serve_once, respond) per accepted          *)
(* connection, the rustls session each unit drives, and the client at the  *)
(* other end of the transport.  Bytes are numbers 0..255, text is a        *)
(* sequence of bytes.                                                      *)
(***************************************************************************)
EXTENDS Integers, Sequences, FiniteSets, TLC

(***************************************************************************)
(* Bounds of the model.                                                    *)
(***************************************************************************)
\* connections the acceptor takes before the model stops offering new ones
MaxConns == 2
\* transport segments a client may have in flight towards the server
MaxInFlight == 2
\* size of the partial write a session may accept instead of the whole buffer
PartialWrite == 400

(***************************************************************************)
(* Program constants.                                                      *)
(***************************************************************************)
\* vec![0u8; 4096]
RequestCap == 4096
\* server_config.max_early_data_size = 1024
max_early_data_size == 1024

\* const INDEX_HTML_TEMPLATE, 86 bytes of the raw string literal
INDEX_HTML_TEMPLATE ==
  <<
  72, 84, 84, 80, 47, 49, 46, 49, 32, 50, 48, 48, 32, 79, 75, 10, 99, 111, 110, 116, 101, 110,
  116, 45, 116, 121, 112, 101, 58, 32, 116, 101, 120, 116, 47, 104, 116, 109, 108, 10, 99, 111,
  110, 116, 101, 110, 116, 45, 108, 101, 110, 103, 116, 104, 58, 32, 123, 99, 111, 110, 116,
  101, 110, 116, 95, 108, 101, 110, 125, 10, 10, 123, 105, 110, 100, 101, 120, 95, 104, 116,
  109, 108, 125, 10, 10, 10
  >>

\* const INDEX_HTML, 959 bytes of the raw string literal
INDEX_HTML ==
  <<
  60, 33, 68, 79, 67, 84, 89, 80, 69, 32, 104, 116, 109, 108, 62, 10, 60, 104, 116, 109, 108,
  62, 10, 10, 60, 104, 101, 97, 100, 62, 10, 32, 32, 60, 116, 105, 116, 108, 101, 62, 65, 120,
  117, 109, 32, 70, 101, 116, 99, 104, 32, 72, 97, 110, 103, 60, 47, 116, 105, 116, 108, 101,
  62, 10, 32, 32, 60, 109, 101, 116, 97, 32, 99, 111, 110, 116, 101, 110, 116, 61, 34, 116,
  101, 120, 116, 47, 104, 116, 109, 108, 59, 99, 104, 97, 114, 115, 101, 116, 61, 117, 116,
  102, 45, 56, 34, 32, 104, 116, 116, 112, 45, 101, 113, 117, 105, 118, 61, 34, 67, 111, 110,
  116, 101, 110, 116, 45, 84, 121, 112, 101, 34, 32, 47, 62, 10, 32, 32, 60, 109, 101, 116, 97,
  32, 110, 97, 109, 101, 61, 34, 118, 105, 101, 119, 112, 111, 114, 116, 34, 32, 99, 111, 110,
  116, 101, 110, 116, 61, 34, 119, 105, 100, 116, 104, 61, 100, 101, 118, 105, 99, 101, 45,
  119, 105, 100, 116, 104, 44, 32, 105, 110, 105, 116, 105, 97, 108, 45, 115, 99, 97, 108, 101,
  61, 49, 34, 32, 47, 62, 10, 32, 32, 60, 109, 101, 116, 97, 32, 99, 104, 97, 114, 115, 101,
  116, 61, 34, 85, 84, 70, 45, 56, 34, 32, 47, 62, 10, 60, 47, 104, 101, 97, 100, 62, 10, 10,
  60, 98, 111, 100, 121, 62, 10, 32, 32, 60, 112, 32, 105, 100, 61, 34, 109, 97, 105, 110, 34,
  62, 80, 108, 101, 97, 115, 101, 32, 99, 104, 101, 99, 107, 32, 116, 104, 101, 32, 99, 111,
  110, 115, 111, 108, 101, 32, 102, 111, 114, 32, 108, 111, 103, 115, 44, 32, 97, 110, 100, 32,
  110, 101, 116, 119, 111, 114, 107, 32, 116, 97, 98, 32, 102, 111, 114, 32, 104, 97, 110, 103,
  105, 110, 103, 32, 114, 101, 113, 117, 101, 115, 116, 115, 46, 60, 47, 112, 62, 10, 32, 32,
  60, 115, 99, 114, 105, 112, 116, 32, 108, 97, 110, 103, 61, 34, 116, 101, 120, 116, 47, 106,
  97, 118, 97, 115, 99, 114, 105, 112, 116, 34, 62, 10, 32, 32, 32, 32, 102, 117, 110, 99, 116,
  105, 111, 110, 32, 102, 101, 116, 99, 104, 68, 97, 116, 97, 40, 41, 32, 123, 10, 32, 32, 32,
  32, 32, 32, 114, 101, 116, 117, 114, 110, 32, 102, 101, 116, 99, 104, 40, 34, 104, 116, 116,
  112, 115, 58, 47, 47, 49, 50, 55, 46, 48, 46, 48, 46, 49, 58, 51, 48, 48, 48, 47, 106, 115,
  111, 110, 34, 44, 32, 123, 10, 32, 32, 32, 32, 32, 32, 32, 32, 99, 114, 101, 100, 101, 110,
  116, 105, 97, 108, 115, 58, 32, 39, 105, 110, 99, 108, 117, 100, 101, 39, 10, 32, 32, 32, 32,
  32, 32, 125, 41, 10, 32, 32, 32, 32, 32, 32, 46, 116, 104, 101, 110, 40, 114, 101, 115, 112,
  111, 110, 115, 101, 32, 61, 62, 32, 123, 10, 32, 32, 32, 32, 32, 32, 32, 32, 105, 102, 32,
  40, 33, 114, 101, 115, 112, 111, 110, 115, 101, 46, 111, 107, 41, 32, 123, 10, 32, 32, 32,
  32, 32, 32, 32, 32, 32, 32, 116, 104, 114, 111, 119, 32, 110, 101, 119, 32, 69, 114, 114,
  111, 114, 40, 39, 78, 101, 116, 119, 111, 114, 107, 32, 114, 101, 115, 112, 111, 110, 115,
  101, 32, 119, 97, 115, 32, 110, 111, 116, 32, 111, 107, 39, 41, 59, 10, 32, 32, 32, 32, 32,
  32, 32, 32, 125, 10, 32, 32, 32, 32, 32, 32, 32, 32, 114, 101, 116, 117, 114, 110, 32, 114,
  101, 115, 112, 111, 110, 115, 101, 46, 106, 115, 111, 110, 40, 41, 59, 10, 32, 32, 32, 32,
  32, 32, 125, 41, 10, 32, 32, 32, 32, 32, 32, 46, 116, 104, 101, 110, 40, 100, 97, 116, 97,
  32, 61, 62, 32, 123, 10, 32, 32, 32, 32, 32, 32, 32, 32, 99, 111, 110, 115, 111, 108, 101,
  46, 108, 111, 103, 40, 100, 97, 116, 97, 41, 59, 10, 32, 32, 32, 32, 32, 32, 32, 32, 114,
  101, 116, 117, 114, 110, 32, 116, 114, 117, 101, 59, 10, 32, 32, 32, 32, 32, 32, 125, 41, 10,
  32, 32, 32, 32, 32, 32, 46, 99, 97, 116, 99, 104, 40, 101, 114, 114, 111, 114, 32, 61, 62,
  32, 123, 10, 32, 32, 32, 32, 32, 32, 32, 32, 99, 111, 110, 115, 111, 108, 101, 46, 101, 114,
  114, 111, 114, 40, 39, 84, 104, 101, 114, 101, 32, 119, 97, 115, 32, 97, 32, 112, 114, 111,
  98, 108, 101, 109, 32, 119, 105, 116, 104, 32, 116, 104, 101, 32, 102, 101, 116, 99, 104, 32,
  111, 112, 101, 114, 97, 116, 105, 111, 110, 58, 39, 44, 32, 101, 114, 114, 111, 114, 41, 59,
  10, 32, 32, 32, 32, 32, 32, 32, 32, 114, 101, 116, 117, 114, 110, 32, 102, 97, 108, 115, 101,
  59, 10, 32, 32, 32, 32, 32, 32, 125, 41, 59, 10, 32, 32, 32, 32, 125, 10, 10, 32, 32, 32, 32,
  102, 101, 116, 99, 104, 68, 97, 116, 97, 40, 41, 59, 10, 32, 32, 32, 32, 115, 101, 116, 84,
  105, 109, 101, 111, 117, 116, 40, 102, 101, 116, 99, 104, 68, 97, 116, 97, 44, 32, 51, 48,
  48, 48, 41, 59, 10, 32, 32, 60, 47, 115, 99, 114, 105, 112, 116, 62, 10, 60, 47, 98, 111,
  100, 121, 62, 10, 10, 60, 47, 104, 116, 109, 108, 62, 10
  >>

\* const JSON, 74 bytes of the raw string literal
JSON ==
  <<
  72, 84, 84, 80, 47, 49, 46, 49, 32, 50, 48, 48, 32, 79, 75, 10, 99, 111, 110, 116, 101, 110,
  116, 45, 116, 121, 112, 101, 58, 32, 97, 112, 112, 108, 105, 99, 97, 116, 105, 111, 110, 47,
  106, 115, 111, 110, 10, 10, 123, 10, 32, 32, 32, 32, 34, 106, 115, 111, 110, 34, 58, 32, 34,
  111, 98, 106, 101, 99, 116, 34, 10, 125, 10, 10
  >>

\* const ERROR, 111 bytes of the raw string literal
ERROR ==
  <<
  72, 84, 84, 80, 47, 49, 46, 49, 32, 53, 48, 48, 32, 73, 78, 84, 69, 82, 78, 65, 76, 32, 83,
  69, 82, 86, 69, 82, 32, 69, 82, 82, 79, 82, 10, 99, 111, 110, 116, 101, 110, 116, 45, 116,
  121, 112, 101, 58, 32, 116, 101, 120, 116, 47, 104, 116, 109, 108, 10, 10, 60, 104, 116, 109,
  108, 62, 60, 98, 111, 100, 121, 62, 10, 83, 111, 109, 101, 116, 104, 105, 110, 103, 32, 119,
  101, 110, 116, 32, 119, 114, 111, 110, 103, 10, 60, 47, 98, 111, 100, 121, 62, 60, 47, 104,
  116, 109, 108, 62, 10, 10, 10
  >>

(***************************************************************************)
(* Text helpers, as the standard library computes them.                    *)
(***************************************************************************)
\* bytes and byte strings
Byte == 0..255
Text == Seq(Byte)

Min(S) == CHOOSE x \in S : \A y \in S : x <= y

Drop(s, n) == SubSeq(s, n + 1, Len(s))

\* str::starts_with
StartsWith(s, p) == Len(p) <= Len(s) /\ SubSeq(s, 1, Len(p)) = p

\* str::split_inclusive('\n') of s[i..]: pieces keep their terminator; ""
\* has no piece
SplitInclusiveFrom[s \in Text, i \in Nat] ==
  IF i > Len(s) THEN <<>>
  ELSE LET nl == {j \in i..Len(s) : s[j] = 10} IN
       IF nl = {} THEN <<SubSeq(s, i, Len(s))>>
       ELSE <<SubSeq(s, i, Min(nl))>> \o SplitInclusiveFrom[s, Min(nl) + 1]

SplitInclusive(s) == SplitInclusiveFrom[s, 1]

\* a map that trims a trailing "\r" from every piece, terminated or not
LinesMapTrim(line) ==
  LET l == IF line # <<>> /\ line[Len(line)] = 10
           THEN SubSeq(line, 1, Len(line) - 1) ELSE line
  IN IF l # <<>> /\ l[Len(l)] = 13 THEN SubSeq(l, 1, Len(l) - 1) ELSE l

\* the map of str::lines: strip one "\n", then one "\r" before it
LinesMap(line) ==
  IF line # <<>> /\ line[Len(line)] = 10
  THEN LET l == SubSeq(line, 1, Len(line) - 1) IN
       IF l # <<>> /\ l[Len(l)] = 13 THEN SubSeq(l, 1, Len(l) - 1) ELSE l
  ELSE line

\* str::lines
Lines(s) == LET p == SplitInclusive(s) IN [i \in 1..Len(p) |-> LinesMap(p[i])]

\* Iterator::last and Iterator::next as options: <<>> is None, <<x>> is Some(x)
Last(q) == IF q = <<>> THEN <<>> ELSE <<q[Len(q)]>>
First(q) == IF q = <<>> THEN <<>> ELSE <<q[1]>>

\* str::split(ch) of s[i..]: n separators give n + 1 pieces, empty ones
\* included
SplitFrom[s \in Text, ch \in Byte, i \in Nat] ==
  LET at == {j \in i..Len(s) : s[j] = ch} IN
  IF at = {} THEN <<SubSeq(s, i, Len(s))>>
  ELSE <<SubSeq(s, i, Min(at) - 1)>> \o SplitFrom[s, ch, Min(at) + 1]

Split(s, ch) == SplitFrom[s, ch, 1]

\* Iterator::find(|seg| seg.starts_with('/'))
FindPath(toks) ==
  LET hit == {i \in 1..Len(toks) : StartsWith(toks[i], <<47>>)} IN
  IF hit = {} THEN <<>> ELSE <<toks[Min(hit)]>>

\* str::from_utf8 succeeds on b[i..]: well-formed UTF-8 (no overlong forms,
\* no surrogates, nothing above U+10FFFF)
Utf8ValidFrom[b \in Text, i \in Nat] ==
  LET n == Len(b)
      In(j, lo, hi) == j <= n /\ b[j] >= lo /\ b[j] <= hi
      Cont(j) == In(j, 128, 191)
  IN IF i > n THEN TRUE
     ELSE IF b[i] < 128
          THEN LET rest == {j \in i..n : b[j] >= 128} IN
               IF rest = {} THEN TRUE ELSE Utf8ValidFrom[b, Min(rest)]
     ELSE IF In(i, 194, 223) THEN Cont(i + 1) /\ Utf8ValidFrom[b, i + 2]
     ELSE IF b[i] = 224
          THEN In(i + 1, 160, 191) /\ Cont(i + 2) /\ Utf8ValidFrom[b, i + 3]
     ELSE IF b[i] = 237
          THEN In(i + 1, 128, 159) /\ Cont(i + 2) /\ Utf8ValidFrom[b, i + 3]
     ELSE IF In(i, 225, 239) THEN Cont(i + 1) /\ Cont(i + 2) /\ Utf8ValidFrom[b, i + 3]
     ELSE IF b[i] = 240
          THEN In(i + 1, 144, 191) /\ Cont(i + 2) /\ Cont(i + 3) /\ Utf8ValidFrom[b, i + 4]
     ELSE IF In(i, 241, 243)
          THEN Cont(i + 1) /\ Cont(i + 2) /\ Cont(i + 3) /\ Utf8ValidFrom[b, i + 4]
     ELSE IF b[i] = 244
          THEN In(i + 1, 128, 143) /\ Cont(i + 2) /\ Cont(i + 3) /\ Utf8ValidFrom[b, i + 4]
     ELSE FALSE

Utf8Valid(b) == Utf8ValidFrom[b, 1]

\* format!("{}", n) for n >= 0: the decimal digits
Decimal[n \in Nat] == IF n < 10 THEN <<48 + n>> ELSE Decimal[n \div 10] \o <<48 + (n % 10)>>

\* str::replace(pat, to) on s[i..]: every non-overlapping match, left to
\* right
ReplaceFrom[s \in Text, pat \in Text, to \in Text, i \in Nat] ==
  LET at == {j \in i..(Len(s) - Len(pat) + 1) : SubSeq(s, j, j + Len(pat) - 1) = pat} IN
  IF at = {} THEN SubSeq(s, i, Len(s))
  ELSE SubSeq(s, i, Min(at) - 1) \o to \o ReplaceFrom[s, pat, to, Min(at) + Len(pat)]

Replace(s, pat, to) == ReplaceFrom[s, pat, to, 1]

(***************************************************************************)
(* The response generators.                                                *)
(***************************************************************************)
\* "{content_len}" and "{index_html}"
ContentLenKey == <<123, 99, 111, 110, 116, 101, 110, 116, 95, 108, 101, 110, 125>>
IndexHtmlKey == <<123, 105, 110, 100, 101, 120, 95, 104, 116, 109, 108, 125>>

\* an index that writes the page's own length
indexBare ==
  Replace(Replace(INDEX_HTML_TEMPLATE, ContentLenKey, Decimal[Len(INDEX_HTML)]),
          IndexHtmlKey, INDEX_HTML)

index ==
  Replace(Replace(INDEX_HTML_TEMPLATE, ContentLenKey, Decimal[Len(INDEX_HTML) + 2]),
          IndexHtmlKey, INDEX_HTML)

json == JSON

error == ERROR

\* "GET", ' ' and "/", "/json" of the router
GET == <<71, 69, 84>>
RootPath == <<47>>
JsonPath == <<47, 106, 115, 111, 110>>

\* request.lines().next().unwrap(): the caller has a non-empty request
RequestLine(req) == Lines(req)[1]

\* a match on prefixes of path_segment
RoutePrefix(path_segment) ==
  IF StartsWith(path_segment, RootPath) THEN index
  ELSE IF StartsWith(path_segment, JsonPath) THEN json
  ELSE error

\* the match on path_segment
Route(path_segment) ==
  IF path_segment = RootPath THEN index
  ELSE IF path_segment = JsonPath THEN json
  ELSE error

\* a test that ends the read loop only on "\n\n"
HeadCompleteLfOnly(text) ==
  Len(text) >= 2 /\ text[Len(text)] = 10 /\ text[Len(text) - 1] = 10

\* a test that ends the read loop at the end of any line
HeadCompleteAnyLine(text) == text # <<>> /\ text[Len(text)] = 10

\* the test that ends the read loop on text = request[..cursor]: its last
\* line is ""
HeadComplete(text) == Last(Lines(text)) = <<<<>>>>

(***************************************************************************)
(* The requests the clients of the model send.                             *)
(***************************************************************************)
\* "GET / HTTP/1.1\r\n\r\n"
HeadIndex == <<71, 69, 84, 32, 47, 32, 72, 84, 84, 80, 47, 49, 46, 49, 13, 10, 13, 10>>
\* "GET /json HTTP/1.1\n\n"
HeadJson ==
  <<71, 69, 84, 32, 47, 106, 115, 111, 110, 32, 72, 84, 84, 80, 47, 49, 46, 49, 10, 10>>
\* "GET /x HTTP/1.1\r\n\r\n"
HeadMissing ==
  <<71, 69, 84, 32, 47, 120, 32, 72, 84, 84, 80, 47, 49, 46, 49, 13, 10, 13, 10>>
\* "GET  / HTTP/1.1\n\n" (two spaces after the method)
HeadSpaces == <<71, 69, 84, 32, 32, 47, 32, 72, 84, 84, 80, 47, 49, 46, 49, 10, 10>>
\* "GET /json HTTP/1.1\r\nhost: a\r\n\r\n"
HeadHeader ==
  <<71, 69, 84, 32, 47, 106, 115, 111, 110, 32, 72, 84, 84, 80, 47, 49, 46, 49, 13, 10,
    104, 111, 115, 116, 58, 32, 97, 13, 10, 13, 10>>
\* "POST / HTTP/1.1\r\n\r\n"
HeadPost == <<80, 79, 83, 84, 32, 47, 32, 72, 84, 84, 80, 47, 49, 46, 49, 13, 10, 13, 10>>
\* "GET\r\n\r\n"
HeadNoPath == <<71, 69, 84, 13, 10, 13, 10>>
\* "\n"
HeadBlank == <<10>>
\* "GET / HTTP/1.1\r\n": the blank line never comes
HeadOpen == <<71, 69, 84, 32, 47, 32, 72, 84, 84, 80, 47, 49, 46, 49, 13, 10>>
\* "GET /\xff\n\n": not UTF-8
HeadBadUtf8 == <<71, 69, 84, 32, 47, 255, 10, 10>>

\* "GET /aaa...a HTTP/1.1\r\n\r\n" with as many a's as the buffer has bytes
HeadLong ==
  <<71, 69, 84, 32, 47>> \o [i \in 1..RequestCap |-> 97]
    \o <<32, 72, 84, 84, 80, 47, 49, 46, 49, 13, 10, 13, 10>>

\* heads of the form GET <path> HTTP/1.1 followed by two line terminators
GetHeads == {HeadIndex, HeadJson, HeadMissing}

Heads ==
  GetHeads \cup {HeadSpaces, HeadHeader, HeadPost, HeadNoPath, HeadBlank, HeadOpen,
                 HeadBadUtf8}

\* What a client does: kind "app" sends its head as application data after
\* the handshake, "early" sends it as early data inside the handshake,
\* "junk" sends garbage instead of a ClientHello.  After its last byte the
\* client stays silent ("stay"), closes the transport ("reset") or sends a
\* close-notify alert and closes ("close").
Scenario(k, h, e) == [kind |-> k, head |-> h, hangup |-> e]

Junk == Scenario("junk", <<>>, "stay")

\* every client, for the specification of one connection
AllScenarios ==
  {Scenario("app", h, "stay") : h \in Heads}
    \cup {Scenario("app", h, e) : h \in {HeadIndex, HeadOpen}, e \in {"reset", "close"}}
    \cup {Scenario("early", h, "stay") : h \in {HeadIndex, HeadJson}}
    \cup {Scenario("early", HeadIndex, "reset"), Junk}

\* the clients of the specification of the whole process
FewScenarios ==
  {Scenario("app", HeadIndex, "stay"), Scenario("app", HeadNoPath, "stay"), Junk}

(***************************************************************************)
(* State.                                                                  *)
(***************************************************************************)
Conns == 1..MaxConns

VARIABLES
  acceptor,  \* the acceptor thread: "bind", "accept" or "failed"
  main,      \* main inside thread::scope: "scope", then "Ok" or "panic"
  client,    \* per connection: the peer's scenario and how far it got
  wire,      \* per connection: segments sent by the peer, not yet read
  out,       \* per connection: ciphertext the unit wrote to the transport
  tls,       \* per connection: the rustls session
  pc,        \* per connection: where its unit is in serve_once / respond
  request,   \* per connection: the request buffer
  cursor,    \* per connection: the write cursor into the request buffer
  response,  \* per connection: the response handed to respond
  buf,       \* per connection: how many bytes of response are before buf
  result     \* per connection: how serve_once ended

vars ==
  <<acceptor, main, client, wire, out, tls, pc, request, cursor, response, buf, result>>

\* ciphertext by kind: handshake flights, application data (counted in
\* plaintext bytes) and the close-notify alert
NoCipher == [hs |-> 0, app |-> 0, alert |-> FALSE]

Cipher(a, b) ==
  [hs |-> a.hs + b.hs, app |-> a.app + b.app, alert |-> a.alert \/ b.alert]

\* rustls::ServerConnection::new
NewSession ==
  [handshaking |-> TRUE, hs |-> "hello", early_ok |-> FALSE, early_data |-> <<>>,
   received_plaintext |-> <<>>, sendable_tls |-> NoCipher, has_seen_eof |-> FALSE,
   received_close_notify |-> FALSE, written |-> 0, sent_close_notify |-> FALSE]

\* vec![0u8; 4096]: the bytes written so far, then zeros
NewBuffer == [data |-> <<>>, zeros |-> RequestCap]

\* &request[..n]
Bytes(b, n) ==
  IF n <= Len(b.data) THEN SubSeq(b.data, 1, n)
  ELSE b.data \o [i \in 1..(n - Len(b.data)) |-> 0]

\* request[cur..][..Len(d)] = d
WriteAt(b, cur, d) ==
  LET all == Bytes(b, cur) \o d \o Drop(b.data, cur + Len(d)) IN
  [data |-> all, zeros |-> (Len(b.data) + b.zeros) - Len(all)]

\* request.truncate(n)
Truncate(b, n) == [data |-> Bytes(b, n), zeros |-> 0]

NoResult == [ret |-> "running", at |-> "running"]

Init ==
  /\ acceptor = "bind"
  /\ main = "scope"
  /\ client = [c \in Conns |-> [scn |-> Junk, step |-> "none", sent |-> 0]]
  /\ wire = [c \in Conns |-> <<>>]
  /\ out = [c \in Conns |-> NoCipher]
  /\ tls = [c \in Conns |-> NewSession]
  /\ pc = [c \in Conns |-> "idle"]
  /\ request = [c \in Conns |-> NewBuffer]
  /\ cursor = [c \in Conns |-> 0]
  /\ response = [c \in Conns |-> <<>>]
  /\ buf = [c \in Conns |-> 0]
  /\ result = [c \in Conns |-> NoResult]

(***************************************************************************)
(* The session: what rustls does with the segments it is given.            *)
(***************************************************************************)
Seg(t, d) == [t |-> t, d |-> d]

\* process_new_packets on one segment; hs = "bad" is a protocol error
Deliver(s, seg) ==
  LET bad == [s EXCEPT !.hs = "bad"] IN
  IF s.hs = "bad" THEN s
  ELSE IF seg.t = "part" THEN s
  ELSE IF seg.t = "eof" THEN [s EXCEPT !.has_seen_eof = TRUE]
  ELSE IF seg.t = "alert" THEN [s EXCEPT !.received_close_notify = TRUE]
  ELSE IF seg.t \in {"hello", "hello0"}
       THEN IF s.hs = "hello"
            THEN [s EXCEPT !.hs = "fin",
                           !.early_ok = (seg.t = "hello0" /\ max_early_data_size > 0),
                           !.sendable_tls = Cipher(@, [NoCipher EXCEPT !.hs = 1])]
            ELSE bad
  ELSE IF seg.t = "early"
       THEN IF /\ s.hs = "fin"
               /\ s.early_ok
               /\ Len(s.early_data) + Len(seg.d) <= max_early_data_size
            THEN [s EXCEPT !.early_data = @ \o seg.d]
            ELSE bad
  ELSE IF seg.t = "fin"
       THEN IF s.hs = "fin"
            THEN [s EXCEPT !.hs = "done", !.handshaking = FALSE,
                           !.sendable_tls = Cipher(@, [NoCipher EXCEPT !.hs = 1])]
            ELSE bad
  ELSE IF seg.t = "app"
       THEN IF s.hs = "done" THEN [s EXCEPT !.received_plaintext = @ \o seg.d] ELSE bad
  ELSE bad

\* process_new_packets on the first k of segs, in order
RECURSIVE DeliverAll(_, _, _)
DeliverAll(s, segs, k) ==
  IF k = 0 THEN s ELSE Deliver(DeliverAll(s, segs, k - 1), segs[k])

\* Connection::wants_write, Connection::wants_read
WantsWrite(s) == s.sendable_tls # NoCipher

WantsRead(s) == s.received_plaintext = <<>> /\ ~s.received_close_notify

\* write_tls until nothing is pending: the session after, the transport after
Flushed(s) == [s EXCEPT !.sendable_tls = NoCipher]

Sent(o, s) == Cipher(o, s.sendable_tls)

(***************************************************************************)
(* The acceptor thread and main.                                           *)
(***************************************************************************)
UnitVars == <<wire, out, tls, pc, request, cursor, response, buf, result>>

\* TcpListener::bind succeeds
Bind ==
  /\ acceptor = "bind"
  /\ acceptor' = "accept"
  /\ UNCHANGED <<main, client, UnitVars>>

\* TcpListener::bind fails: `?` ends the acceptor thread with Err
BindFail ==
  /\ acceptor = "bind"
  /\ acceptor' = "failed"
  /\ UNCHANGED <<main, client, UnitVars>>

\* one turn of the accept loop: a peer with scenario scn connects, gets a
\* fresh session and its own thread running serve_once
Accept(c, scenarios) ==
  /\ acceptor = "accept"
  /\ pc[c] = "idle"
  /\ \A d \in Conns : d < c => pc[d] # "idle"
  /\ \E scn \in scenarios :
       client' = [client EXCEPT ![c] = [scn |-> scn, step |-> "hello", sent |-> 0]]
  /\ tls' = [tls EXCEPT ![c] = NewSession]
  /\ wire' = [wire EXCEPT ![c] = <<>>]
  /\ out' = [out EXCEPT ![c] = NoCipher]
  /\ pc' = [pc EXCEPT ![c] = "handshake"]
  /\ UNCHANGED <<acceptor, main, request, cursor, response, buf, result>>

\* listener.accept() or ServerConnection::new fails: `?` ends the acceptor
\* thread with Err; nobody reads that result
AcceptFail ==
  /\ acceptor = "accept"
  /\ acceptor' = "failed"
  /\ UNCHANGED <<main, client, UnitVars>>

\* a thread that panicked: serve_once returned Err into unwrap, or panicked
Panicked(c) == result[c].ret \in {"Err", "panic"}

\* thread::scope returns once every thread it spawned has ended: it panics
\* if one of them panicked and otherwise yields the closure's Ok(())
ScopeExit ==
  /\ main = "scope"
  /\ acceptor = "failed"
  /\ \A c \in Conns : pc[c] \in {"idle", "done"}
  /\ main' = IF \E c \in Conns : Panicked(c) THEN "panic" ELSE "Ok"
  /\ UNCHANGED <<acceptor, client, UnitVars>>

(***************************************************************************)
(* The peer.                                                               *)
(***************************************************************************)
Room(c, n) == pc[c] # "done" /\ Len(wire[c]) + n <= MaxInFlight

Push(c, segs, step, sent) ==
  /\ wire' = [wire EXCEPT ![c] = @ \o segs]
  /\ client' = [client EXCEPT ![c].step = step, ![c].sent = sent]
  /\ UNCHANGED <<acceptor, main, out, tls, pc, request, cursor, response, buf, result>>

\* the step after the peer's last byte
Leave(c) == IF client[c].scn.hangup = "stay" THEN "end" ELSE "hangup"

\* the first flight: a ClientHello (offering early data or not), or garbage
ClientHello(c) ==
  /\ client[c].step = "hello"
  /\ Room(c, 1)
  /\ LET k == client[c].scn.kind IN
     IF k = "junk" THEN Push(c, <<Seg("junk", <<>>)>>, "end", 0)
     ELSE IF k = "early" THEN Push(c, <<Seg("hello0", <<>>)>>, "early", 0)
     ELSE Push(c, <<Seg("hello", <<>>)>>, "fin", 0)

\* the next n bytes of the head, as one record; `any` lets the peer choose n
\* and split the record over two transport segments
ClientData(c, any) ==
  /\ client[c].step \in {"early", "data"}
  /\ LET h == client[c].scn.head
         at == client[c].sent
         t == IF client[c].step = "early" THEN "early" ELSE "app"
     IN \E n \in (IF any THEN 1..(Len(h) - at) ELSE {Len(h) - at}),
           split \in (IF any THEN BOOLEAN ELSE {FALSE}) :
          /\ n > 0
          /\ Room(c, IF split THEN 2 ELSE 1)
          /\ Push(c,
                  (IF split THEN <<Seg("part", <<>>)>> ELSE <<>>)
                    \o <<Seg(t, SubSeq(h, at + 1, at + n))>>,
                  IF at + n < Len(h) THEN client[c].step
                  ELSE IF t = "early" THEN "fin" ELSE Leave(c),
                  at + n)

\* the client's Finished, which answers the server's flight
ClientFinished(c) ==
  /\ client[c].step = "fin"
  /\ out[c].hs > 0
  /\ Room(c, 1)
  /\ Push(c, <<Seg("fin", <<>>)>>,
          IF client[c].scn.kind = "app" THEN "data" ELSE Leave(c), client[c].sent)

\* the peer closes its side, with or without a close-notify alert first
ClientHangup(c) ==
  /\ client[c].step = "hangup"
  /\ Room(c, 1)
  /\ Push(c, <<Seg(IF client[c].scn.hangup = "close" THEN "alert" ELSE "eof", <<>>)>>,
          "end", client[c].sent)

(***************************************************************************)
(* The connection unit: serve_once, then respond.                          *)
(***************************************************************************)
Process == <<acceptor, main>>

\* a thread's end where a panic aborts the process: every unit ends with it
FinishAbort(c, ret, at) ==
  /\ pc' = [d \in Conns |-> IF d = c \/ (ret # "Ok" /\ pc[d] # "idle") THEN "done" ELSE pc[d]]
  /\ result' = [result EXCEPT ![c] = [ret |-> ret, at |-> at]]
  /\ wire' = [wire EXCEPT ![c] = <<>>]
  /\ client' = [client EXCEPT ![c].step = "end"]

\* the unit's thread ends: serve_once returned ret, or panicked, at `at`.
\* conn and tls are dropped: the socket is closed, what the peer had in
\* flight is lost and the peer sends no more.
Finish(c, ret, at) ==
  /\ pc' = [pc EXCEPT ![c] = "done"]
  /\ result' = [result EXCEPT ![c] = [ret |-> ret, at |-> at]]
  /\ wire' = [wire EXCEPT ![c] = <<>>]
  /\ client' = [client EXCEPT ![c].step = "end"]

Goto(c, next) ==
  /\ pc' = [pc EXCEPT ![c] = next]
  /\ UNCHANGED <<result, client>>

\* a guard that holds only until the client's first flight is in
StillHandshakingFirstFlight(s) == s.hs = "hello"

\* the guard of `while tls.is_handshaking()`
StillHandshaking(s) == s.handshaking

\* an Err arm that returns the error to the caller
HandshakeErrPropagates(c) == Finish(c, "Err", "handshake")

\* the Err arm of the handshake loop: tracing::error!, return Ok(())
HandshakeErr(c) == Finish(c, "Ok", "handshake")

\* tls.complete_io(&mut conn) while handshaking: pending records go out, then
\* a blocking read and process_new_packets, until the handshake is complete;
\* one step per write and per read.  A protocol error or an EOF inside the
\* handshake is an Err.
HandshakeIO(c) ==
  /\ pc[c] = "handshake"
  /\ StillHandshaking(tls[c])
  /\ \/ /\ WantsWrite(tls[c])
        /\ tls' = [tls EXCEPT ![c] = Flushed(@)]
        /\ out' = [out EXCEPT ![c] = Sent(@, tls[c])]
        /\ UNCHANGED <<wire, pc, result, client>>
     \/ /\ ~WantsWrite(tls[c])
        /\ wire[c] # <<>>
        /\ \E k \in 1..Len(wire[c]), tickets \in BOOLEAN :
             LET s == DeliverAll(tls[c], wire[c], k)
                 failed == s.hs = "bad" \/ (s.has_seen_eof /\ s.handshaking)
                 now == tickets /\ ~s.handshaking /\ ~failed
             IN /\ tls' = [tls EXCEPT ![c] = IF now THEN Flushed(s) ELSE s]
                /\ out' = [out EXCEPT ![c] = IF now THEN Sent(@, s) ELSE @]
                /\ IF failed THEN HandshakeErr(c)
                   ELSE /\ wire' = [wire EXCEPT ![c] = Drop(@, k)]
                        /\ UNCHANGED <<pc, result, client>>
  /\ UNCHANGED <<Process, request, cursor, response, buf>>

\* the handshake loop ends; let mut request = vec![0u8; 4096]; cursor = 0
BeginRequest(c) ==
  /\ pc[c] = "handshake"
  /\ ~StillHandshaking(tls[c])
  /\ request' = [request EXCEPT ![c] = NewBuffer]
  /\ cursor' = [cursor EXCEPT ![c] = 0]
  /\ Goto(c, "read_io")
  /\ UNCHANGED <<Process, wire, out, tls, response, buf>>

\* tls.complete_io(&mut conn)? after the handshake: if the session wants to
\* write, everything pending is written; otherwise, if it wants to read, one
\* blocking read_tls and process_new_packets (a protocol error there ends
\* serve_once with Err); otherwise nothing
CompleteIO(c, next) ==
  /\ IF WantsWrite(tls[c])
     THEN /\ tls' = [tls EXCEPT ![c] = Flushed(@)]
          /\ out' = [out EXCEPT ![c] = Sent(@, tls[c])]
          /\ Goto(c, next)
          /\ UNCHANGED wire
     ELSE IF WantsRead(tls[c]) /\ ~(tls[c].has_seen_eof /\ wire[c] = <<>>)
     THEN /\ wire[c] # <<>>
          /\ \E k \in 1..Len(wire[c]) :
               LET s == DeliverAll(tls[c], wire[c], k) IN
               /\ tls' = [tls EXCEPT ![c] = s]
               /\ IF s.hs = "bad" THEN Finish(c, "Err", pc[c])
                  ELSE wire' = [wire EXCEPT ![c] = Drop(@, k)] /\ Goto(c, next)
          /\ UNCHANGED out
     ELSE Goto(c, next) /\ UNCHANGED <<wire, out, tls>>
  /\ UNCHANGED <<Process, request, cursor, response, buf>>

\* a transport failure that ends the unit as the handshake's Err arm does
TransportFailsSwallowed(c) ==
  /\ \/ pc[c] = "handshake" /\ StillHandshaking(tls[c])
     \/ pc[c] \in {"read_io", "closing", "flush_io"}
     \/ pc[c] = "w_loop" /\ buf[c] # Len(response[c]) /\ WantsWrite(tls[c])
  /\ Finish(c, "Ok", IF pc[c] = "w_loop" THEN "drain" ELSE pc[c])
  /\ UNCHANGED <<Process, out, tls, request, cursor, response, buf>>

\* the transport fails under the unit's next I/O call: in the handshake loop
\* the Err arm runs; complete_io(..)? at lines 77, 174 and 178 and
\* write_tls(..)? at line 164 return the Err
TransportFails(c) ==
  /\ IF pc[c] = "handshake" /\ StillHandshaking(tls[c]) THEN HandshakeErr(c)
     ELSE IF pc[c] \in {"read_io", "closing", "flush_io"} THEN Finish(c, "Err", pc[c])
     ELSE /\ pc[c] = "w_loop"
          /\ buf[c] # Len(response[c])
          /\ WantsWrite(tls[c])
          /\ Finish(c, "Err", "drain")
  /\ UNCHANGED <<Process, out, tls, request, cursor, response, buf>>

\* line 77
ReadIO(c) == pc[c] = "read_io" /\ CompleteIO(c, "read")

\* what the unchecked scan of request[..cursor] can answer: the test itself
\* on UTF-8, anything on bytes that are not (from_utf8_unchecked on them is
\* undefined behaviour)
ScanOutcomes(req, cur) ==
  IF Utf8Valid(Bytes(req, cur)) THEN {HeadComplete(Bytes(req, cur))} ELSE BOOLEAN

\* what reader.read(&mut request[cursor..]) returns: the number of plaintext
\* bytes copied, at most the room left
BytesRead(s, room) ==
  IF Len(s.received_plaintext) < room THEN Len(s.received_plaintext) ELSE room

\* tls.reader().read(&mut request[cursor..]): plaintext if there is any,
\* Ok(0) after the peer's close-notify, UnexpectedEof after a bare EOF,
\* WouldBlock (taken as 0) otherwise; then cursor += bytes_read and the scan
Read(c) ==
  /\ pc[c] = "read"
  /\ LET s == tls[c]
         room == (Len(request[c].data) + request[c].zeros) - cursor[c]
         n == BytesRead(s, room)
         eof == n = 0 /\ room > 0 /\ ~s.received_close_notify /\ s.has_seen_eof
         req == WriteAt(request[c], cursor[c], SubSeq(s.received_plaintext, 1, n))
     IN IF eof
        THEN Finish(c, "panic", "read") /\ UNCHANGED <<tls, request, cursor>>
        ELSE /\ tls' = [tls EXCEPT ![c].received_plaintext = Drop(@, n)]
             /\ request' = [request EXCEPT ![c] = req]
             /\ cursor' = [cursor EXCEPT ![c] = @ + n]
             /\ \E done \in ScanOutcomes(req, cursor[c] + n) :
                  Goto(c, IF done THEN "parse" ELSE "read_io")
             /\ UNCHANGED wire
  /\ UNCHANGED <<Process, out, response, buf>>

\* no method check at all
AnyMethod(request_line) == TRUE

\* request_line.starts_with("GET")
MethodOk(request_line) == StartsWith(request_line, GET)

\* request_line.split(' ').find(|seg| seg.starts_with('/'))
PathSegment(request_line) == FindPath(Split(request_line, 32))

\* lines 101-129: truncate, String::from_utf8(request)?, the method check,
\* the path token, the match; ends in the call of respond
Parse(c) ==
  /\ pc[c] = "parse"
  /\ LET req == Truncate(request[c], cursor[c]) IN
     /\ request' = [request EXCEPT ![c] = req]
     /\ IF ~Utf8Valid(req.data)
        THEN Finish(c, "Err", "utf8") /\ UNCHANGED response
        ELSE IF ~MethodOk(RequestLine(req.data))
        THEN Finish(c, "panic", "method") /\ UNCHANGED response
        ELSE IF PathSegment(RequestLine(req.data)) = <<>>
        THEN Finish(c, "panic", "path") /\ UNCHANGED response
        ELSE /\ response' =
                  [response EXCEPT ![c] = Route(PathSegment(RequestLine(req.data))[1])]
             /\ Goto(c, "w_loop")
             /\ UNCHANGED wire
  /\ buf' = [buf EXCEPT ![c] = 0]
  /\ UNCHANGED <<Process, out, tls, cursor>>

\* a loop head that goes straight to the write
WriteLoopNoDrain(c) ==
  /\ pc[c] = "w_loop"
  /\ Goto(c, IF buf[c] = Len(response[c]) THEN "closing" ELSE "w_write")
  /\ UNCHANGED <<Process, wire, out, tls, request, cursor, response, buf>>

\* lines 157-166: leave the loop when buf is empty; otherwise write_tls and
\* flush while the session wants to write
WriteLoop(c) ==
  /\ pc[c] = "w_loop"
  /\ IF buf[c] = Len(response[c])
     THEN Goto(c, "closing") /\ UNCHANGED <<wire, out, tls>>
     ELSE /\ tls' = [tls EXCEPT ![c] = Flushed(@)]
          /\ out' = [out EXCEPT ![c] = Sent(@, tls[c])]
          /\ Goto(c, "w_write")
          /\ UNCHANGED wire
  /\ UNCHANGED <<Process, request, cursor, response, buf>>

\* the byte counts writer.write may accept of `left` offered bytes
AcceptCounts(left, partial) ==
  {left} \cup (IF partial /\ PartialWrite < left THEN {PartialWrite} ELSE {})

\* a write that takes the whole of buf for written, whatever was accepted
WriteAssumeAll(c, partial) ==
  /\ pc[c] = "w_write"
  /\ \E n \in AcceptCounts(Len(response[c]) - buf[c], partial) :
       tls' = [tls EXCEPT ![c].written = @ + n,
                          ![c].sendable_tls = Cipher(@, [NoCipher EXCEPT !.app = n])]
  /\ buf' = [buf EXCEPT ![c] = Len(response[c])]
  /\ Goto(c, "w_loop")
  /\ UNCHANGED <<Process, wire, out, request, cursor, response>>

\* lines 168-170: the session takes n bytes of buf; buf = &buf[n..]
Write(c, partial) ==
  /\ pc[c] = "w_write"
  /\ \E n \in AcceptCounts(Len(response[c]) - buf[c], partial) :
       /\ tls' = [tls EXCEPT ![c].written = @ + n,
                             ![c].sendable_tls = Cipher(@, [NoCipher EXCEPT !.app = n])]
       /\ buf' = [buf EXCEPT ![c] = @ + n]
  /\ Goto(c, "w_loop")
  /\ UNCHANGED <<Process, wire, out, request, cursor, response>>

\* no sync I/O before the close-notify
ClosingSkipped(c) ==
  /\ pc[c] = "closing"
  /\ Goto(c, "notify")
  /\ UNCHANGED <<Process, wire, out, tls, request, cursor, response, buf>>

\* line 174
Closing(c) == pc[c] = "closing" /\ CompleteIO(c, "notify")

\* a unit that, instead of closing, writes its response again
NotifyRestarts(c) ==
  /\ pc[c] = "notify"
  /\ buf' = [buf EXCEPT ![c] = 0]
  /\ Goto(c, "w_loop")
  /\ UNCHANGED <<Process, wire, out, tls, request, cursor, response>>

\* line 175: tls.send_close_notify()
Notify(c) ==
  /\ pc[c] = "notify"
  /\ tls' = [tls EXCEPT ![c].sent_close_notify = TRUE,
                        ![c].sendable_tls = Cipher(@, [NoCipher EXCEPT !.alert = TRUE])]
  /\ Goto(c, "flush_io")
  /\ UNCHANGED <<Process, wire, out, request, cursor, response, buf>>

\* line 178
FlushIO(c) == pc[c] = "flush_io" /\ CompleteIO(c, "flush")

\* a unit that keeps the connection and waits for the next request
FlushKeepAlive(c) ==
  /\ pc[c] = "flush"
  /\ Goto(c, "read_io")
  /\ UNCHANGED <<Process, wire, out, tls, request, cursor, response, buf>>

\* lines 180-182: conn.flush()?; Ok(())
Flush(c) ==
  /\ pc[c] = "flush"
  /\ Finish(c, "Ok", "served")
  /\ UNCHANGED <<Process, out, tls, request, cursor, response, buf>>

(***************************************************************************)
(* Specifications.                                                         *)
(***************************************************************************)
Peer(c, any) ==
  \/ ClientHello(c)
  \/ ClientData(c, any)
  \/ ClientFinished(c)

Unit(c, partial) ==
  \/ HandshakeIO(c)
  \/ BeginRequest(c)
  \/ ReadIO(c)
  \/ Read(c)
  \/ Parse(c)
  \/ WriteLoop(c)
  \/ Write(c, partial)
  \/ Closing(c)
  \/ Notify(c)
  \/ FlushIO(c)
  \/ Flush(c)

\* the whole process: the acceptor, main, and up to MaxConns connections
\* whose peers send their head in one record and then stay
Next ==
  \/ Bind
  \/ BindFail
  \/ AcceptFail
  \/ ScopeExit
  \/ \E c \in Conns : Accept(c, FewScenarios)
  \/ \E c \in Conns : Peer(c, FALSE)
  \/ \E c \in Conns : Unit(c, FALSE)
  \/ \E c \in Conns : TransportFails(c)

Spec == Init /\ [][Next]_vars

\* one connection, every client, every chunking
ConnNext ==
  \/ Bind
  \/ Accept(1, AllScenarios)
  \/ Peer(1, TRUE)
  \/ ClientHangup(1)
  \/ Unit(1, TRUE)
  \/ TransportFails(1)

ConnSpec == Init /\ [][ConnNext]_vars

\* one connection under a fair scheduler: the unit's thread keeps running
\* while it has a step to take, and the peer sends what its scenario says;
\* nothing makes the transport fail
LiveScenarios ==
  {Scenario("app", h, "stay") : h \in GetHeads \cup {HeadOpen}}
    \cup {Scenario("app", HeadIndex, e) : e \in {"reset", "close"}}
    \cup {Scenario("early", h, "stay") : h \in {HeadIndex, HeadJson}}
    \cup {Junk}

LiveNext ==
  \/ Bind
  \/ Accept(1, LiveScenarios)
  \/ Peer(1, TRUE)
  \/ ClientHangup(1)
  \/ Unit(1, TRUE)
  \/ TransportFails(1)

FairConnSpec ==
  /\ Init
  /\ [][LiveNext]_vars
  /\ WF_vars(Unit(1, TRUE))
  /\ WF_vars(Peer(1, TRUE) \/ ClientHangup(1))

\* one connection under the fair scheduler whose peer sends, in one record,
\* a head longer than the buffer, or the index request
LongScenarios ==
  {Scenario("app", HeadLong, e) : e \in {"stay", "reset", "close"}}
    \cup {Scenario("app", HeadIndex, e) : e \in {"stay", "close"}}

LongNext ==
  \/ Bind
  \/ Accept(1, LongScenarios)
  \/ Peer(1, FALSE)
  \/ ClientHangup(1)
  \/ Unit(1, TRUE)
  \/ TransportFails(1)

FairLongSpec ==
  /\ Init
  /\ [][LongNext]_vars
  /\ WF_vars(Unit(1, TRUE))
  /\ WF_vars(Peer(1, FALSE) \/ ClientHangup(1))

(***************************************************************************)
(* Properties.                                                             *)
(***************************************************************************)
\* the phases of the record pump, from the unit's place in the code
Phase(c) ==
  CASE pc[c] = "idle" -> "None"
    [] pc[c] = "handshake" -> "Handshaking"
    [] pc[c] \in {"read_io", "read", "parse"} -> "ReadingRequest"
    [] pc[c] \in {"w_loop", "w_write"} -> "WritingResponse"
    [] pc[c] \in {"closing", "notify", "flush_io", "flush"} -> "Closing"
    [] OTHER -> "Closed"

\* respond returned Ok(()) after handing the whole response to the session
\* and sending close-notify
Served(c) ==
  /\ pc[c] = "done"
  /\ result[c] = [ret |-> "Ok", at |-> "served"]
  /\ response[c] # <<>>
  /\ tls[c].written = Len(response[c])
  /\ tls[c].sent_close_notify

\* the unit ended on a failed handshake or on an Err of complete_io,
\* write_tls or flush
IoFailed(c) ==
  /\ pc[c] = "done"
  /\ result[c].at \in {"handshake", "read_io", "drain", "closing", "flush_io"}

\* C1: a connection whose peer completes the handshake and sends a complete
\* head GET <path> HTTP/1.1 as application data, in any chunking, is
\* eventually served (whole response handed to the session, close-notify
\* sent, unit ended), unless a transport or protocol error ends it.
C1_EndToEndProgress ==
  \A c \in Conns :
    (pc[c] # "idle" /\ client[c].scn.kind = "app" /\ client[c].scn.head \in GetHeads)
      ~> (Served(c) \/ IoFailed(c))

C1_Witness ==
  \E c \in Conns :
    /\ client[c].scn.kind = "app"
    /\ client[c].scn.head \in GetHeads
    /\ Served(c)

\* C2: a peer that delivers its complete head as early data and then stays
\* silent is eventually past ReadingRequest (or ended).
C2_EarlyDataReachesRequest ==
  \A c \in Conns :
    (/\ pc[c] # "idle"
     /\ client[c].scn.kind = "early"
     /\ HeadComplete(client[c].scn.head)
     /\ client[c].scn.hangup = "stay")
      ~> (Phase(c) \in {"WritingResponse", "Closing", "Closed"})

\* C3: wherever the unit is about to read or write plaintext, or anywhere
\* past the handshake loop, the session no longer reports is_handshaking.
C3_HandshakeBeforePlaintext ==
  \A c \in Conns :
    /\ pc[c] \in {"read", "w_write"} => ~tls[c].handshaking
    /\ Phase(c) \in {"ReadingRequest", "WritingResponse", "Closing"} => ~tls[c].handshaking
    /\ (cursor[c] > 0 \/ tls[c].written > 0) => ~tls[c].handshaking

C3_Witness == \E c \in Conns : cursor[c] > 0 /\ tls[c].written > 0 /\ pc[c] = "w_write"

\* C4: a unit that ends inside the handshake loop (transport failure or
\* protocol error under complete_io) ends with Ok, has read no plaintext
\* and handed no response byte to the session, and the step that ends it
\* leaves the acceptor, main and every other unit as they were.
C4_SilentHandshakeFailure ==
  [][\A c \in Conns :
       (pc[c] = "handshake" /\ tls[c].handshaking /\ pc'[c] = "done") =>
         /\ result'[c].ret = "Ok"
         /\ cursor'[c] = 0
         /\ tls'[c].written = 0
         /\ response'[c] = <<>>
         /\ out'[c].app = 0
         /\ acceptor' = acceptor
         /\ main' = main
         /\ \A d \in Conns \ {c} : pc'[d] = pc[d] /\ result'[d] = result[d]]_vars

C4_Witness ==
  \E c, d \in Conns :
    /\ c # d
    /\ client[c].scn.kind = "junk"
    /\ result[c] = [ret |-> "Ok", at |-> "handshake"]
    /\ pc[d] = "w_write"
    /\ acceptor = "accept"

\* what a unit owns
ConnState(c) == <<pc[c], tls[c], request[c], cursor[c], response[c], buf[c], result[c]>>

\* C5: a step in which a unit fails (Err into unwrap, or a panic) leaves the
\* acceptor and main as they were; no step changes what two units own; and
\* an accepted connection starts in the handshake with a fresh session.
C5_ConnectionIsolation ==
  [][/\ \A c \in Conns :
          (Panicked(c)' /\ ~Panicked(c)) => (acceptor' = acceptor /\ main' = main)
     /\ \A c, d \in Conns :
          (c # d /\ ConnState(c)' # ConnState(c)) => ConnState(d)' = ConnState(d)
     /\ \A c \in Conns :
          (pc[c] = "idle" /\ pc'[c] # "idle") =>
            (pc'[c] = "handshake" /\ tls'[c] = NewSession /\ cursor'[c] = 0)]_vars

C5_Witness ==
  \E c, d \in Conns :
    /\ c # d
    /\ Panicked(c)
    /\ pc[d] = "w_write"
    /\ cursor[d] > 0
    /\ acceptor = "accept"

\* request was truncated to cursor bytes and is the text String::from_utf8
\* returns
Finalized(c) == request[c].zeros = 0 /\ request[c].data # <<>> /\ Utf8Valid(request[c].data)

\* C6: a unit whose finalized request's first line does not start with GET
\* has ended in a panic with no response chosen, no response byte handed to
\* the session or sent, and no close-notify.
C6_BadMethodServesNothing ==
  \A c \in Conns :
    (Finalized(c) /\ ~StartsWith(RequestLine(request[c].data), GET)) =>
      /\ pc[c] = "done"
      /\ result[c].ret = "panic"
      /\ response[c] = <<>>
      /\ tls[c].written = 0
      /\ ~tls[c].sent_close_notify
      /\ out[c].app = 0
      /\ ~out[c].alert

C6_Witness ==
  \E c \in Conns :
    /\ request[c] = [data |-> HeadPost, zeros |-> 0]
    /\ result[c] = [ret |-> "panic", at |-> "method"]

\* the unit is past the read loop: the scan said the request is complete
PastReadLoop(c) ==
  \/ Phase(c) \in {"WritingResponse", "Closing"}
  \/ pc[c] = "parse"
  \/ pc[c] = "done" /\ result[c].at \in {"utf8", "method", "path", "drain", "closing", "flush_io", "served"}

\* C7: for a head GET <path> HTTP/1.1 ended by CRLF CRLF or LF LF, sent as
\* application data in any chunking: the buffer always holds a prefix of
\* the head, the loop is past its scan only with the whole head read, it
\* never goes round again with the whole head read, and the finalized
\* buffer is the head.
C7_ChunkingIndependence ==
  \A c \in Conns :
    LET h == client[c].scn.head IN
    (pc[c] # "idle" /\ client[c].scn.kind = "app" /\ h \in GetHeads) =>
      /\ cursor[c] <= Len(h)
      /\ Bytes(request[c], cursor[c]) = SubSeq(h, 1, cursor[c])
      /\ PastReadLoop(c) => cursor[c] = Len(h)
      /\ pc[c] = "read_io" => cursor[c] < Len(h)
      /\ request[c].zeros = 0 => request[c].data = h

C7_Witness ==
  \E c \in Conns :
    /\ client[c].scn = Scenario("app", HeadIndex, "stay")
    /\ pc[c] = "read_io"
    /\ cursor[c] = Len(HeadIndex) - 1
    /\ tls[c].received_plaintext = <<>>

\* the first space-delimited token of line that begins with "/", found by
\* position: <<>> if there is none
FirstPathToken(line) ==
  LET starts == {i \in 1..Len(line) : line[i] = 47 /\ (i = 1 \/ line[i - 1] = 32)} IN
  IF starts = {} THEN <<>>
  ELSE LET i == Min(starts)
           stops == {j \in i..Len(line) : line[j] = 32}
       IN <<SubSeq(line, i, IF stops = {} THEN Len(line) ELSE Min(stops) - 1)>>

Status200Html == <<72, 84, 84, 80, 47, 49, 46, 49, 32, 50, 48, 48, 32, 79, 75, 10, 99, 111, 110, 116, 101, 110, 116, 45, 116, 121, 112, 101, 58, 32, 116, 101, 120, 116, 47, 104, 116, 109, 108, 10>>
Status200Json == <<72, 84, 84, 80, 47, 49, 46, 49, 32, 50, 48, 48, 32, 79, 75, 10, 99, 111, 110, 116, 101, 110, 116, 45, 116, 121, 112, 101, 58, 32, 97, 112, 112, 108, 105, 99, 97, 116, 105, 111, 110, 47, 106, 115, 111, 110, 10>>
Status500 == <<72, 84, 84, 80, 47, 49, 46, 49, 32, 53, 48, 48, 32>>

\* C8: for a finalized request whose first line starts with GET and has a
\* token beginning with "/", the response chosen is the index response
\* (200, text/html) iff the first such token is "/", the JSON response
\* (200, application/json) iff it is "/json", and the 500 response
\* otherwise; the response is a function of the request.
C8_Routing ==
  \A c \in Conns :
    LET line == RequestLine(request[c].data)
        tok == FirstPathToken(line)
    IN (Finalized(c) /\ StartsWith(line, GET) /\ tok # <<>>) =>
         /\ response[c] = (IF tok[1] = <<47>> THEN index
                           ELSE IF tok[1] = <<47, 106, 115, 111, 110>> THEN json
                           ELSE error)
         /\ (tok[1] = <<47>>) <=> StartsWith(response[c], Status200Html)
         /\ (tok[1] = <<47, 106, 115, 111, 110>>) <=> StartsWith(response[c], Status200Json)
         /\ (tok[1] \notin {<<47>>, <<47, 106, 115, 111, 110>>}) <=> StartsWith(response[c], Status500)

C8_Witness ==
  \E c \in Conns :
    /\ request[c] = [data |-> HeadMissing, zeros |-> 0]
    /\ response[c] = error
    /\ tls[c].written = Len(error)

\* C9: a response, once chosen, never changes and no more of it is handed
\* over than it has; past the read loop the unit reads no more plaintext and
\* never returns to the read loop or the handshake; with the whole response
\* written its next step is towards closing; and a unit that served has handed over
\* exactly its response and sent close-notify after it.
C9_OneRequestPerConnection ==
  /\ [](\A c \in Conns :
          /\ tls[c].written <= Len(response[c])
          /\ result[c].at = "served" =>
               /\ tls[c].written = Len(response[c])
               /\ tls[c].sent_close_notify
               /\ out[c].app = Len(response[c])
               /\ out[c].alert)
  /\ [][\A c \in Conns :
          /\ response[c] # <<>> => response'[c] = response[c]
          /\ PastReadLoop(c) =>
               /\ PastReadLoop(c)'
               /\ cursor'[c] = cursor[c]
               /\ Len(request'[c].data) <= Len(request[c].data)
          /\ (pc[c] = "w_loop" /\ buf[c] = Len(response[c])) =>
               pc'[c] \in {"w_loop", "closing", "done"}
          /\ pc[c] = "flush" => pc'[c] \in {"flush", "done"}]_vars

C9_Witness ==
  \E c \in Conns :
    /\ result[c].at = "served"
    /\ out[c].app = Len(response[c])
    /\ out[c].alert
    /\ client[c].scn.head = HeadHeader

\* C10: once bind or accept has failed, main does not return success.
C10_AcceptFailurePropagates == acceptor = "failed" => main # "Ok"

\* the value of a run of decimal digits
DecimalValue[d \in Text] ==
  IF d = <<>> THEN 0 ELSE 10 * DecimalValue[SubSeq(d, 1, Len(d) - 1)] + (d[Len(d)] - 48)

\* where the blank line that ends the header of r starts
HeaderEnd(r) == Min({i \in 1..(Len(r) - 1) : r[i] = 10 /\ r[i + 1] = 10})

ContentLengthName == <<99, 111, 110, 116, 101, 110, 116, 45, 108, 101, 110, 103, 116, 104, 58, 32>>

\* the value of the content-length line in the header of r
ContentLength(r) ==
  LET k == Len(ContentLengthName)
      at == Min({i \in 1..HeaderEnd(r) :
                   /\ SubSeq(r, i, i + k - 1) = ContentLengthName
                   /\ (i = 1 \/ r[i - 1] = 10)})
      stop == Min({j \in (at + k)..Len(r) : r[j] = 10})
  IN DecimalValue[SubSeq(r, at + k, stop - 1)]

\* the bytes of r that follow its header-terminating blank line
BodyLength(r) == Len(r) - (HeaderEnd(r) + 1)

\* C11: the content-length line of the index response reads
\* len(INDEX_HTML) + 2.
C11_IndexContentLength ==
  \A c \in Conns :
    StartsWith(response[c], Status200Html) =>
      ContentLength(response[c]) = Len(INDEX_HTML) + 2

C11_Witness ==
  \E c \in Conns :
    /\ response[c] = index
    /\ ContentLength(response[c]) = 961
    /\ pc[c] = "w_loop"
    /\ buf[c] = 0

\* reader.read on session s reports WouldBlock: no plaintext, no
\* close-notify and no EOF seen
WouldBlock(s) == s.received_plaintext = <<>> /\ ~s.received_close_notify /\ ~s.has_seen_eof

PastWriteLoop(c) ==
  \/ Phase(c) = "Closing"
  \/ pc[c] = "done" /\ result[c].at \in {"closing", "flush_io", "served"}

\* C13: the bytes the session has accepted are exactly the bytes before
\* the unsent remainder (a prefix of the response, none skipped or
\* repeated), none of them is lost between session and transport, and the
\* write loop is left only with the whole response accepted.
C13_PartialWritesHonoured ==
  \A c \in Conns :
    /\ buf[c] = tls[c].written
    /\ buf[c] <= Len(response[c])
    /\ out[c].app + tls[c].sendable_tls.app = tls[c].written
    /\ PastWriteLoop(c) => (response[c] # <<>> /\ tls[c].written = Len(response[c]))

C13_Witness ==
  \E c \in Conns :
    /\ pc[c] = "w_write"
    /\ buf[c] = 2 * PartialWrite
    /\ buf[c] < Len(response[c])

\* C14: wherever the unit is about to hand plaintext to the session, and in
\* every step that hands some over, the session has no ciphertext pending.
C14_DrainBeforeEncrypt ==
  /\ [](\A c \in Conns : pc[c] = "w_write" => ~WantsWrite(tls[c]))
  /\ [][\A c \in Conns :
          tls'[c].written # tls[c].written =>
            (~WantsWrite(tls[c]) /\ out[c].app = tls[c].written)]_vars

C14_Witness ==
  \E c \in Conns :
    /\ pc[c] = "w_write"
    /\ tls[c].written > 0
    /\ out[c].app = tls[c].written
    /\ ~WantsWrite(tls[c])

\* C15: close-notify is issued only with the whole response accepted by the
\* session and its ciphertext on the transport; after it no plaintext is
\* handed over, one complete_io puts the alert on the transport, and the
\* unit's only steps left are that complete_io, the flush and its end.
C15_ClosingOrder ==
  /\ [](\A c \in Conns :
          tls[c].sent_close_notify =>
            /\ response[c] # <<>>
            /\ tls[c].written = Len(response[c])
            /\ out[c].app = Len(response[c])
            /\ pc[c] \in {"flush_io", "flush", "done"})
  /\ [][\A c \in Conns :
          /\ tls[c].sent_close_notify =>
               (tls'[c].written = tls[c].written /\ tls'[c].sent_close_notify)
          /\ (pc[c] = "flush_io" /\ pc'[c] # "flush_io") =>
               \/ pc'[c] = "flush" /\ out'[c].alert /\ ~WantsWrite(tls'[c])
               \/ pc'[c] = "done" /\ result'[c].ret = "Err"
          /\ (pc[c] = "flush" /\ pc'[c] # "flush") =>
               (pc'[c] = "done" /\ result'[c].ret = "Ok")]_vars

C15_Witness ==
  \E c \in Conns :
    /\ pc[c] = "flush"
    /\ out[c].alert
    /\ out[c].app = Len(response[c])
    /\ tls[c].sent_close_notify

\* C16: a peer that sends, as application data, a head longer than 4096
\* bytes that ends with a blank line is eventually past the read loop
\* (or the unit ended on an I/O error).
C16_LongHeadsAccepted ==
  \A c \in Conns :
    (/\ pc[c] # "idle"
     /\ client[c].scn.kind = "app"
     /\ Len(client[c].scn.head) > RequestCap
     /\ HeadComplete(client[c].scn.head))
      ~> (PastReadLoop(c) \/ IoFailed(c))

\* where a unit ends on a fatal error after the handshake: the read's
\* unwrap, complete_io or write_tls, from_utf8, the path token's unwrap
FatalAt == {"read", "read_io", "utf8", "path", "drain", "closing", "flush_io"}

\* C17: a unit that ended on a read error other than would-block, an I/O
\* error after the handshake, malformed UTF-8 or a missing path token ended
\* with Err or a panic; the step that ended it read nothing, handed no
\* plaintext over, sent nothing and issued no close-notify; before the
\* response is chosen nothing was handed over, and before line 175 no
\* close-notify exists; and an ended unit takes no further step.
C17_FatalErrorsStopTheUnit ==
  /\ [](\A c \in Conns :
          (pc[c] = "done" /\ result[c].at \in FatalAt) =>
            /\ result[c].ret \in {"Err", "panic"}
            /\ result[c].at \in {"read", "read_io", "utf8", "path"} =>
                 (response[c] = <<>> /\ tls[c].written = 0)
            /\ result[c].at # "flush_io" => (~tls[c].sent_close_notify /\ ~out[c].alert))
  /\ [][\A c \in Conns :
          /\ (pc[c] # "done" /\ pc'[c] = "done" /\ result'[c].at \in FatalAt) =>
               /\ cursor'[c] = cursor[c]
               /\ tls'[c].written = tls[c].written
               /\ tls'[c].sent_close_notify = tls[c].sent_close_notify
               /\ response'[c] = response[c]
               /\ out'[c] = out[c]
          /\ pc[c] = "done" => (ConnState(c)' = ConnState(c) /\ out'[c] = out[c])]_vars

C17_Witness ==
  \E c \in Conns :
    /\ result[c] = [ret |-> "Err", at |-> "drain"]
    /\ tls[c].written > 0
    /\ tls[c].written < Len(response[c])

\* text ends with a line terminator that follows a line terminator or
\* starts the text: its last line is empty
EndsWithBlankLine(text) ==
  LET n == Len(text) IN
  /\ n >= 1
  /\ text[n] = 10
  /\ \/ n = 1
     \/ text[n - 1] = 10
     \/ text[n - 1] = 13 /\ (n = 2 \/ text[n - 2] = 10)

\* C18: cursor stays within the 4096 bytes; the bytes before cursor are the
\* first cursor bytes the peer sent as application data (early data and
\* garbage give none); a response is chosen, and any of it handed over,
\* only with a buffer whose last line is empty; and a peer none of whose
\* prefixes ends with a blank line gets no response.
C18_NoResponseBeforeCompleteHead ==
  \A c \in Conns :
    LET h == client[c].scn.head IN
    /\ cursor[c] >= 0 /\ cursor[c] <= RequestCap
    /\ IF client[c].scn.kind = "app"
       THEN cursor[c] <= client[c].sent /\ Bytes(request[c], cursor[c]) = SubSeq(h, 1, cursor[c])
       ELSE cursor[c] = 0
    /\ (response[c] # <<>> \/ tls[c].written > 0 \/ Phase(c) \in {"WritingResponse", "Closing"}) =>
         EndsWithBlankLine(Bytes(request[c], cursor[c]))
    /\ (\A k \in 0..Len(h) : ~EndsWithBlankLine(SubSeq(h, 1, k))) =>
         (response[c] = <<>> /\ tls[c].written = 0 /\ out[c].app = 0)

C18_Witness ==
  \E c \in Conns :
    /\ request[c] = [data |-> HeadSpaces, zeros |-> 0]
    /\ tls[c].written > 0
    /\ cursor[c] = Len(HeadSpaces)

\* the order of the phases
PhaseRank(p) ==
  CASE p = "None" -> 0
    [] p = "Handshaking" -> 1
    [] p = "ReadingRequest" -> 2
    [] p = "WritingResponse" -> 3
    [] p = "Closing" -> 4
    [] p = "Closed" -> 5

\* C19: no step takes a connection to an earlier phase; a step that skips
\* a phase ends in Closed; and in Closed nothing the unit owns, nothing on
\* the transport and nothing in flight changes any more.
C19_PhaseMonotonicity ==
  [][\A c \in Conns :
       LET before == PhaseRank(Phase(c))
           after == PhaseRank(Phase(c)') IN
       /\ after >= before
       /\ after > before + 1 => after = 5
       /\ before = 5 =>
            /\ ConnState(c)' = ConnState(c)
            /\ out'[c] = out[c]
            /\ wire'[c] = wire[c]
            /\ client'[c] = client[c]]_vars

C19_Witness ==
  \E c \in Conns :
    /\ Phase(c) = "Closed"
    /\ result[c].at = "served"
    /\ client[c].scn.head = HeadJson
    /\ wire[c] = <<>>

\* C20: in the index response, the number of bytes after the blank line
\* that ends the header is the value of its content-length line.
C20_IndexBodyMatchesHeader ==
  \A c \in Conns :
    StartsWith(response[c], Status200Html) =>
      BodyLength(response[c]) = ContentLength(response[c])

=============================================================================
